---- MODULE Spec2Model ----
(***************************************************************************)
(* Model of the request handlers of src/main.py: a Flask application over  *)
(* four relational tables (customer, products, orders, order_products),    *)
(* marshmallow-sqlalchemy schemas that validate request bodies, and one    *)
(* handler per route.                                                      *)
(*                                                                         *)
(* The store is the external MySQL database named by DATABASE_URL.  Every  *)
(* handler runs in its own request-scoped session: it reads, changes       *)
(* mapped objects, and commits once; an exception leaves the store as it   *)
(* was (the session is discarded when the request ends) and the framework  *)
(* answers 500.                                                            *)
(*                                                                         *)
(* Module start-up (configuration, table creation) is not modelled: the    *)
(* tables are taken as the models declare them (Products names the table   *)
(* order_products at line 59, four lines before the module binds it).  No  *)
(* handler of the application can create a customer, a product or an order *)
(* (see Loaded and Subscript), so the initial states are the contents the  *)
(* database may hold when the application connects to it, restricted by    *)
(* the declared constraints.                                               *)
(***************************************************************************)
EXTENDS Integers, Sequences, FiniteSets, Bags, TLC

VARIABLES
    customer,        \* table customer: id -> [name, email, address]
    products,        \* table products: id -> [product_name, price]
    orders,          \* table orders: id -> [order_date, customer_id]
    order_products,  \* association table: bag of <<order_id, product_id>> rows
    req,             \* the request being answered
    resp,            \* the response the handler returned for req
    snapshot,        \* the tables as they were when the request began
    workers          \* concurrent POST /customers requests, step by step

vars == <<customer, products, orders, order_products, req, resp, snapshot, workers>>

\* ---------------------------------------------------------------- bounds

MaxCustomerId == 2
MaxProductId == 2
MaxOrderId == 1

CustomerIds == 1..MaxCustomerId
ProductIds == 1..MaxProductId
OrderIds == 1..MaxOrderId

\* ---------------------------------------------------------------- values

\* Python None / SQL NULL in a string column and in an integer column.
None == "None"
NoneId == 0

Names == {"Ann"}
Emails == {"ann@x.com", "bob@x.com"}
Addresses == {"1 Main St"}
ProductNames == {"Widget"}
Prices == {999}

\* Text is a sequence of one-character strings, so that parsing and
\* formatting a date are computed and not assumed.
DigitChars == <<"0", "1", "2", "3", "4", "5", "6", "7", "8", "9">>

IsDigit(c) == \E i \in 1..10 : DigitChars[i] = c

DigitVal(c) == (CHOOSE i \in 1..10 : DigitChars[i] = c) - 1

RECURSIVE Num(_)
Num(s) == IF s = <<>> THEN 0
          ELSE Num(SubSeq(s, 1, Len(s) - 1)) * 10 + DigitVal(s[Len(s)])

AllDigits(s) == \A i \in 1..Len(s) : IsDigit(s[i])

IsLeap(y) == (y % 4 = 0 /\ y % 100 # 0) \/ y % 400 = 0

DaysInMonth(y, m) ==
    IF m = 2 THEN (IF IsLeap(y) THEN 29 ELSE 28)
    ELSE IF m \in {4, 6, 9, 11} THEN 30 ELSE 31

\* datetime.date(y, m, d) accepts exactly the calendar dates.
ValidDate(y, m, d) ==
    /\ y >= 1
    /\ m \in 1..12
    /\ d >= 1 /\ d <= DaysInMonth(y, m)

InvalidDate == <<>>

\* The default deserialisation of marshmallow's Date field: ISO 8601,
\* YYYY-MM-DD.  This is the field OrderSchema really has for order_date: the
\* fields.Date(format='%m.%d.%Y') of lines 104-110 is an attribute of the
\* inner class Meta, which declares options and not fields.
from_iso_date(s) ==
    IF /\ Len(s) = 10
       /\ s[5] = "-" /\ s[8] = "-"
       /\ AllDigits(SubSeq(s, 1, 4))
       /\ AllDigits(SubSeq(s, 6, 7))
       /\ AllDigits(SubSeq(s, 9, 10))
       /\ ValidDate(Num(SubSeq(s, 1, 4)), Num(SubSeq(s, 6, 7)), Num(SubSeq(s, 9, 10)))
    THEN <<Num(SubSeq(s, 1, 4)), Num(SubSeq(s, 6, 7)), Num(SubSeq(s, 9, 10))>>
    ELSE InvalidDate

\* The format written at line 105, '%m.%d.%Y' (MM.DD.YYYY).
strptime_m_d_Y(s) ==
    IF /\ Len(s) = 10
       /\ s[3] = "." /\ s[6] = "."
       /\ AllDigits(SubSeq(s, 1, 2))
       /\ AllDigits(SubSeq(s, 4, 5))
       /\ AllDigits(SubSeq(s, 7, 10))
       /\ ValidDate(Num(SubSeq(s, 7, 10)), Num(SubSeq(s, 1, 2)), Num(SubSeq(s, 4, 5)))
    THEN <<Num(SubSeq(s, 7, 10)), Num(SubSeq(s, 1, 2)), Num(SubSeq(s, 4, 5))>>
    ELSE InvalidDate

RECURSIVE Pad(_, _)
\* n written in decimal on w digits.
Pad(n, w) == IF w = 0 THEN <<>>
             ELSE Append(Pad(n \div 10, w - 1), DigitChars[(n % 10) + 1])

\* date.isoformat(), the serialisation of a Date field on dump.
isoformat(d) == Pad(d[1], 4) \o <<"-">> \o Pad(d[2], 2) \o <<"-">> \o Pad(d[3], 2)

IsoText == <<"2", "0", "2", "4", "-", "0", "1", "-", "0", "1">>
DottedText == <<"0", "1", ".", "1", "5", ".", "2", "0", "2", "4">>
DateTexts == {IsoText, DottedText}
StoredDates == {<<2024, 1, 15>>}

\* ---------------------------------------------------------------- schema

\* Column options of the models (lines 39-78).
email_unique == TRUE              \* Customer.email, unique=True

\* The column declared without nullable=False.
customer_id_nullable_true == TRUE

customer_id_nullable == FALSE     \* Orders.customer_id, nullable=False

UniqueEmail(c) ==
    email_unique =>
        \A i, j \in DOMAIN c : c[i].email = c[j].email => i = j

NotNullCustomerId(o) ==
    \A i \in DOMAIN o : o[i].customer_id = NoneId => customer_id_nullable

\* ForeignKey("customer.id") on orders.customer_id; a NULL reference passes.
FkOrdersCustomer(o, c) ==
    \A i \in DOMAIN o :
        o[i].customer_id = NoneId \/ o[i].customer_id \in DOMAIN c

\* ForeignKey('orders.id') and ForeignKey('products.id') on order_products.
FkOrderProducts(op, o, p) ==
    \A r \in BagToSet(op) : r[1] \in DOMAIN o /\ r[2] \in DOMAIN p

\* The composite primary key (order_id, product_id) of order_products.
PkOrderProducts(op) ==
    \A r \in BagToSet(op) : CopiesIn(r, op) = 1

\* What the storage engine demands of the rows a commit leaves behind; a
\* commit that breaks one of these raises IntegrityError and changes nothing.
IntegrityOK(c, p, o, op) ==
    /\ UniqueEmail(c)
    /\ NotNullCustomerId(o)
    /\ FkOrdersCustomer(o, c)
    /\ FkOrderProducts(op, o, p)
    /\ PkOrderProducts(op)

\* ---------------------------------------------------------------- schemas

\* SQLAlchemyAutoSchema derives one field per column; a field is required
\* when its column is NOT NULL and has no default (the autoincrement id has).
CustomerFields == {"id", "name", "email", "address"}
CustomerRequired == {"name", "email"}
ProductFields == {"id", "product_name", "price"}
ProductRequired == {"product_name", "price"}
OrderFields == {"id", "order_date", "customer_id"}      \* include_fk = True
OrderRequired == {"order_date", "customer_id"}

\* Meta.load_instance of the three schemas (lines 90, 96, 103): load()
\* returns a model instance, not a dict.
CustomerSchema_load_instance == TRUE
ProductSchema_load_instance == TRUE
OrderSchema_load_instance == TRUE

MissingMsg == "Missing data for required field."
UnknownMsg == "Unknown field."
NotADateMsg == "Not a valid date."

\* err.messages of a failed load: the set of <<field, message>> pairs.
FieldErrors(fields, required, data) ==
    {<<f, MissingMsg>> : f \in required \ DOMAIN data}
        \cup {<<f, UnknownMsg>> : f \in DOMAIN data \ fields}

CustomerErrors(data) == FieldErrors(CustomerFields, CustomerRequired, data)

ProductErrors(data) == FieldErrors(ProductFields, ProductRequired, data)

OrderErrors(data) ==
    FieldErrors(OrderFields, OrderRequired, data)
        \cup (IF "order_date" \in DOMAIN data
                 /\ from_iso_date(data.order_date) = InvalidDate
              THEN {<<"order_date", NotADateMsg>>} ELSE {})

\* The deserialised fields of a valid order payload.
OrderDeserialize(data) ==
    [f \in DOMAIN data |->
        IF f = "order_date" THEN from_iso_date(data[f]) ELSE data[f]]

\* The value load() returns for valid data.
Loaded(load_instance, fields) ==
    [kind |-> IF load_instance THEN "instance" ELSE "dict", fields |-> fields]

\* obj[key] for every key of keys: "ok", or the exception raised.  A mapped
\* instance has no __getitem__; a dict raises KeyError for an absent key.
Subscript(obj, keys) ==
    IF obj.kind # "dict" THEN "TypeError"
    ELSE IF \E k \in keys : k \notin DOMAIN obj.fields THEN "KeyError"
    ELSE "ok"

\* load(data, instance=row): the loaded fields are set on the instance.
SetAttrs(row, fields) ==
    [f \in DOMAIN row |-> IF f \in DOMAIN fields THEN fields[f] ELSE row[f]]

\* The primary key an instance has after load(data, instance=row).
NewId(id, fields) == IF "id" \in DOMAIN fields THEN fields.id ELSE id

\* The table after the row at old was rewritten to row under key new.
ReKey(tbl, old, new, row) ==
    [i \in (DOMAIN tbl \ {old}) \cup {new} |-> IF i = new THEN row ELSE tbl[i]]

\* UPDATE ... SET id = new hits the primary key of another row.
DuplicateKey(tbl, old, new) == new # old /\ new \in DOMAIN tbl

Remove(tbl, id) == [i \in DOMAIN tbl \ {id} |-> tbl[i]]

Insert(tbl, id, row) == [i \in DOMAIN tbl \cup {id} |-> IF i = id THEN row ELSE tbl[i]]

\* ---------------------------------------------------------------- dumps

customer_dump(id, row) ==
    [id |-> id, name |-> row.name, email |-> row.email, address |-> row.address]

product_dump(id, row) ==
    [id |-> id, product_name |-> row.product_name, price |-> row.price]

order_dump(id, row) ==
    [id |-> id, order_date |-> isoformat(row.order_date), customer_id |-> row.customer_id]

\* ---------------------------------------------------------------- responses

NoPayload == <<>>

Request(op, id, product_id, payload) ==
    [op |-> op, id |-> id, product_id |-> product_id, payload |-> payload]

Response(status, error, message, errors, data, exception) ==
    [status |-> status, error |-> error, message |-> message,
     errors |-> errors, data |-> data, exception |-> exception]

\* jsonify({"error": text}), status
ErrorResponse(status, text) == Response(status, text, "", {}, {}, "")

\* The status line 302 uses, in place of 404.
NotFound_as_400(text) == ErrorResponse(400, text)

\* jsonify({"error": "<Resource> not found"}), 404
NotFound(text) == ErrorResponse(404, text)

\* jsonify(err.messages), 400
ValidationFailed(errors) == Response(400, "", "", errors, {}, "")

\* jsonify({"Message": text, ...}), status
Success(status, text, data) == Response(status, "", text, {}, data, "")

\* schema.jsonify(rows): 200 and the serialised rows
Rows(data) == Response(200, "", "", {}, data, "")

\* An exception no handler catches: the framework answers 500.
ServerError(exception) == Response(500, "", "", {}, {}, exception)

\* No request is being answered: the previous one has ended.
Idle == req.op = "none"

\* The four tables, as one value.
Store ==
    [customer |-> customer, products |-> products, orders |-> orders,
     order_products |-> order_products]

Answer(q, r) ==
    /\ req' = q
    /\ resp' = r
    /\ snapshot' = Store
    /\ UNCHANGED workers

Unchanged == UNCHANGED <<customer, products, orders, order_products>>

\* ---------------------------------------------------------------- inputs

\* JSON request bodies: a function from the keys present to their values.
CustomerPayloads ==
    {[name |-> n, email |-> e, address |-> a] : n \in Names, e \in Emails, a \in Addresses}
        \cup {[name |-> n, email |-> e] : n \in Names, e \in Emails}
        \cup {[email |-> e, address |-> a] : e \in Emails, a \in Addresses}
        \cup {[name |-> n, address |-> a] : n \in Names, a \in Addresses}

CustomerUpdatePayloads ==
    CustomerPayloads
        \cup {[id |-> i, name |-> n, email |-> e] :
                i \in CustomerIds, n \in Names, e \in Emails}

ProductPayloads ==
    {[product_name |-> n, price |-> x] : n \in ProductNames, x \in Prices}
        \cup {[product_name |-> n] : n \in ProductNames}

ProductUpdatePayloads ==
    ProductPayloads
        \cup {[id |-> i, product_name |-> n, price |-> x] :
                i \in ProductIds, n \in ProductNames, x \in Prices}

OrderPayloads ==
    {[order_date |-> d, customer_id |-> c] : d \in DateTexts, c \in CustomerIds}
        \cup {[customer_id |-> c] : c \in CustomerIds}
        \cup {[order_date |-> d] : d \in DateTexts}

\* The ids an AUTO_INCREMENT key can give a new row: above every id in use.
AutoIds(tbl, ids) == {i \in ids : \A j \in DOMAIN tbl : j < i}

\* ---------------------------------------------------------------- customers

\* GET /customers
get_customers ==
    /\ Idle
    /\ Answer(Request("get_customers", NoneId, NoneId, NoPayload),
              Rows({customer_dump(i, customer[i]) : i \in DOMAIN customer}))
    /\ Unchanged

\* GET /customers/<id>
get_customer(id) ==
    /\ Idle
    /\ Answer(Request("get_customer", id, NoneId, NoPayload),
              IF id \notin DOMAIN customer
              THEN NotFound("Customer not found")
              ELSE Rows({customer_dump(id, customer[id])}))
    /\ Unchanged

\* POST /customers
add_customer(data) ==
    /\ Idle
    /\  LET q == Request("add_customer", NoneId, NoneId, data)
            customer_data == Loaded(CustomerSchema_load_instance, data)
            raised == Subscript(customer_data, {"name", "email", "address"})
        IN  IF CustomerErrors(data) # {}
            THEN Answer(q, ValidationFailed(CustomerErrors(data))) /\ Unchanged
            ELSE IF raised # "ok"
            THEN Answer(q, ServerError(raised)) /\ Unchanged
            ELSE \E id \in AutoIds(customer, CustomerIds) :
                    LET new_customer == [name |-> data.name, email |-> data.email,
                                         address |-> data.address]
                        c2 == Insert(customer, id, new_customer)
                    IN  IF IntegrityOK(c2, products, orders, order_products)
                        THEN /\ customer' = c2
                             /\ UNCHANGED <<products, orders, order_products>>
                             /\ Answer(q, Success(201, "Customer created successfully",
                                                  {customer_dump(id, new_customer)}))
                        ELSE Answer(q, ServerError("IntegrityError")) /\ Unchanged

\* PUT /customers/<id>
update_customer(id, data) ==
    /\ Idle
    /\  LET q == Request("update_customer", id, NoneId, data)
        IN  IF id \notin DOMAIN customer
            THEN Answer(q, NotFound("Customer not found")) /\ Unchanged
            ELSE IF CustomerErrors(data) # {}
            THEN Answer(q, ValidationFailed(CustomerErrors(data))) /\ Unchanged
            ELSE LET new == NewId(id, data)
                     row == SetAttrs(customer[id], data)
                     c2 == ReKey(customer, id, new, row)
                 IN  IF \/ DuplicateKey(customer, id, new)
                        \/ ~IntegrityOK(c2, products, orders, order_products)
                     THEN Answer(q, ServerError("IntegrityError")) /\ Unchanged
                     ELSE /\ customer' = c2
                          /\ UNCHANGED <<products, orders, order_products>>
                          /\ Answer(q, Success(200, "Customer updated successfully",
                                               {customer_dump(new, row)}))

\* session.delete(customer): the relationship Customer.orders has no delete
\* cascade, so the unit of work sets customer_id of the customer's orders to
\* NULL before it deletes the customer row.
NullifyOrders(o, id) ==
    [i \in DOMAIN o |->
        IF o[i].customer_id = id THEN [o[i] EXCEPT !.customer_id = NoneId] ELSE o[i]]

\* DELETE /customers/<id>
delete_customer(id) ==
    /\ Idle
    /\  LET q == Request("delete_customer", id, NoneId, NoPayload)
        IN  IF id \notin DOMAIN customer
            THEN Answer(q, NotFound("Customer not found")) /\ Unchanged
            ELSE LET c2 == Remove(customer, id)
                     o2 == NullifyOrders(orders, id)
                 IN  IF IntegrityOK(c2, products, o2, order_products)
                     THEN /\ customer' = c2
                          /\ orders' = o2
                          /\ UNCHANGED <<products, order_products>>
                          /\ Answer(q, Success(200, "Customer deleted successfully", {}))
                     ELSE Answer(q, ServerError("IntegrityError")) /\ Unchanged

\* ---------------------------------------------------------------- products

\* GET /products
get_products ==
    /\ Idle
    /\ Answer(Request("get_products", NoneId, NoneId, NoPayload),
              Rows({product_dump(i, products[i]) : i \in DOMAIN products}))
    /\ Unchanged

\* GET /products/<id>
get_product(id) ==
    /\ Idle
    /\ Answer(Request("get_product", id, NoneId, NoPayload),
              IF id \notin DOMAIN products
              THEN NotFound("Product not found")
              ELSE Rows({product_dump(id, products[id])}))
    /\ Unchanged

\* POST /products
add_product(data) ==
    /\ Idle
    /\  LET q == Request("add_product", NoneId, NoneId, data)
            product_data == Loaded(ProductSchema_load_instance, data)
            raised == Subscript(product_data, {"product_name", "price"})
        IN  IF ProductErrors(data) # {}
            THEN Answer(q, ValidationFailed(ProductErrors(data))) /\ Unchanged
            ELSE IF raised # "ok"
            THEN Answer(q, ServerError(raised)) /\ Unchanged
            ELSE \E id \in AutoIds(products, ProductIds) :
                    LET new_product == [product_name |-> data.product_name,
                                        price |-> data.price]
                        p2 == Insert(products, id, new_product)
                    IN  IF IntegrityOK(customer, p2, orders, order_products)
                        THEN /\ products' = p2
                             /\ UNCHANGED <<customer, orders, order_products>>
                             /\ Answer(q, Success(201, "Product created successfully",
                                                  {product_dump(id, new_product)}))
                        ELSE Answer(q, ServerError("IntegrityError")) /\ Unchanged

\* PUT /products/<id>
update_product(id, data) ==
    /\ Idle
    /\  LET q == Request("update_product", id, NoneId, data)
        IN  IF id \notin DOMAIN products
            THEN Answer(q, NotFound("Product not found")) /\ Unchanged
            ELSE IF ProductErrors(data) # {}
            THEN Answer(q, ValidationFailed(ProductErrors(data))) /\ Unchanged
            ELSE LET new == NewId(id, data)
                     row == SetAttrs(products[id], data)
                     p2 == ReKey(products, id, new, row)
                 IN  IF \/ DuplicateKey(products, id, new)
                        \/ ~IntegrityOK(customer, p2, orders, order_products)
                     THEN Answer(q, ServerError("IntegrityError")) /\ Unchanged
                     ELSE /\ products' = p2
                          /\ UNCHANGED <<customer, orders, order_products>>
                          /\ Answer(q, Success(200, "Product updated successfully",
                                               {product_dump(new, row)}))

\* A relationship that leaves the association rows alone (viewonly).
UnlinkProduct_skipped(op, id) == op

\* session.delete(product): the many-to-many relationship Products.orders
\* (secondary=order_products) makes the unit of work delete the product's
\* rows of the association table before it deletes the product row.
UnlinkProduct(op, id) ==
    [r \in {x \in DOMAIN op : x[2] # id} |-> op[r]]

\* DELETE /products/<id>
delete_product(id) ==
    /\ Idle
    /\  LET q == Request("delete_product", id, NoneId, NoPayload)
        IN  IF id \notin DOMAIN products
            THEN Answer(q, NotFound("Product not found")) /\ Unchanged
            ELSE LET p2 == Remove(products, id)
                     op2 == UnlinkProduct(order_products, id)
                 IN  IF IntegrityOK(customer, p2, orders, op2)
                     THEN /\ products' = p2
                          /\ order_products' = op2
                          /\ UNCHANGED <<customer, orders>>
                          /\ Answer(q, Success(200, "Product deleted successfully", {}))
                     ELSE Answer(q, ServerError("IntegrityError")) /\ Unchanged

\* ---------------------------------------------------------------- orders

\* POST /orders
add_order(data) ==
    /\ Idle
    /\  LET q == Request("add_order", NoneId, NoneId, data)
            order_data == Loaded(OrderSchema_load_instance, OrderDeserialize(data))
            raised == Subscript(order_data, {"customer_id", "order_date"})
        IN  IF OrderErrors(data) # {}
            THEN Answer(q, ValidationFailed(OrderErrors(data))) /\ Unchanged
            ELSE IF raised # "ok"
            THEN Answer(q, ServerError(raised)) /\ Unchanged
            ELSE IF data.customer_id \in DOMAIN customer
            THEN \E id \in AutoIds(orders, OrderIds) :
                    LET new_order == [order_date |-> order_data.fields.order_date,
                                      customer_id |-> data.customer_id]
                        o2 == Insert(orders, id, new_order)
                    IN  IF IntegrityOK(customer, products, o2, order_products)
                        THEN /\ orders' = o2
                             /\ UNCHANGED <<customer, products, order_products>>
                             /\ Answer(q, Success(201, "Order created successfully",
                                                  {order_dump(id, new_order)}))
                        ELSE Answer(q, ServerError("IntegrityError")) /\ Unchanged
            ELSE Answer(q, ErrorResponse(400, "Customer not found")) /\ Unchanged

\* Only the order lookup tested.
BothFound_order_only(order_id, product_id) == order_id \in DOMAIN orders

\* `order and product`: both primary-key lookups returned a row.
BothFound(order_id, product_id) ==
    order_id \in DOMAIN orders /\ product_id \in DOMAIN products

\* order.products: the products joined to the order through order_products.
OrderProducts(op, p, order_id) ==
    {r[2] : r \in {x \in BagToSet(op) : x[1] = order_id /\ x[2] \in DOMAIN p}}

\* The membership test left out.
ProductInOrder_unchecked(order_id, product_id) == FALSE

\* `product in order.products`
ProductInOrder(order_id, product_id) ==
    product_id \in OrderProducts(order_products, products, order_id)

\* PUT /orders/<order_id>/add_product/<product_id>
add_product_to_order(order_id, product_id) ==
    /\ Idle
    /\  LET q == Request("add_product_to_order", order_id, product_id, NoPayload)
        IN  IF BothFound(order_id, product_id)
            THEN IF ~ProductInOrder(order_id, product_id)
                 THEN LET op2 == order_products (+) SetToBag({<<order_id, product_id>>})
                      IN  IF IntegrityOK(customer, products, orders, op2)
                          THEN /\ order_products' = op2
                               /\ UNCHANGED <<customer, products, orders>>
                               /\ Answer(q, Success(200, "Product added to order successfully", {}))
                          ELSE Answer(q, ServerError("IntegrityError")) /\ Unchanged
                 ELSE Answer(q, ErrorResponse(400, "Product already in order")) /\ Unchanged
            ELSE Answer(q, NotFound("Order or Product not found")) /\ Unchanged

\* GET /orders/<id>
get_order(id) ==
    /\ Idle
    /\ Answer(Request("get_order", id, NoneId, NoPayload),
              IF id \notin DOMAIN orders
              THEN NotFound("Order not found")
              ELSE Rows({order_dump(id, orders[id])}))
    /\ Unchanged

\* GET /customers/<customer_id>/orders
get_orders_for_customer(customer_id) ==
    /\ Idle
    /\ Answer(Request("get_orders_for_customer", customer_id, NoneId, NoPayload),
              IF customer_id \notin DOMAIN customer
              THEN NotFound("Customer not found")
              ELSE Rows({order_dump(i, orders[i]) :
                           i \in {j \in DOMAIN orders : orders[j].customer_id = customer_id}}))
    /\ Unchanged

\* GET /orders/<order_id>/products
get_products_in_order(order_id) ==
    /\ Idle
    /\ Answer(Request("get_products_in_order", order_id, NoneId, NoPayload),
              IF order_id \notin DOMAIN orders
              THEN NotFound("Order not found")
              ELSE Rows({product_dump(i, products[i]) :
                           i \in OrderProducts(order_products, products, order_id)}))
    /\ Unchanged

\* ---------------------------------------------------------------- system

Tables(ids, rows) == UNION {[D -> rows] : D \in SUBSET ids}

CustomerRows == [name : Names, email : Emails, address : Addresses \cup {None}]
ProductRows == [product_name : ProductNames, price : Prices]

NoRequest == Request("none", NoneId, NoneId, NoPayload)
NoResponse == Response(0, "", "", {}, {}, "")

\* The rows the database holds when the application connects: any rows the
\* declared constraints admit.  The association table starts empty; every
\* association over the rows present is reached through add_product_to_order.
Init ==
    /\ customer \in Tables(CustomerIds, CustomerRows)
    /\ UniqueEmail(customer)
    /\ products \in Tables(ProductIds, ProductRows)
    /\ orders \in Tables(OrderIds, [order_date : StoredDates, customer_id : DOMAIN customer])
    /\ order_products = EmptyBag
    /\ req = NoRequest
    /\ resp = NoResponse
    /\ snapshot = Store
    /\ workers = <<>>

\* The request ends: the response has been sent and the application context
\* is torn down, which discards the request's session.
teardown_request ==
    /\ req.op # "none"
    /\ req' = NoRequest
    /\ resp' = NoResponse
    /\ snapshot' = Store
    /\ Unchanged
    /\ UNCHANGED workers

Next ==
    \/ get_customers
    \/ \E id \in CustomerIds : get_customer(id)
    \/ \E data \in CustomerPayloads : add_customer(data)
    \/ \E id \in CustomerIds, data \in CustomerUpdatePayloads : update_customer(id, data)
    \/ \E id \in CustomerIds : delete_customer(id)
    \/ get_products
    \/ \E id \in ProductIds : get_product(id)
    \/ \E data \in ProductPayloads : add_product(data)
    \/ \E id \in ProductIds, data \in ProductUpdatePayloads : update_product(id, data)
    \/ \E id \in ProductIds : delete_product(id)
    \/ \E data \in OrderPayloads : add_order(data)
    \/ \E o \in OrderIds, p \in ProductIds : add_product_to_order(o, p)
    \/ \E id \in OrderIds : get_order(id)
    \/ \E id \in CustomerIds : get_orders_for_customer(id)
    \/ \E id \in OrderIds : get_products_in_order(id)
    \/ teardown_request

Spec == Init /\ [][Next]_vars

\* ---------------------------------------------------------------- concurrent creates

\* Two POST /customers requests in flight at once.  Each runs add_customer in
\* its own session: load() at line 153, then lines 157-164, whose INSERT and
\* COMMIT the storage engine serialises on the unique index of email.
Workers == {1, 2}

\* add_customer, line 153: customer_schema.load(request.json)
load_customer(w) ==
    /\ workers[w].pc = "load"
    /\ LET data == workers[w].data
       IN  workers' = [workers EXCEPT ![w] =
                IF CustomerErrors(data) # {}
                THEN [pc |-> "done", data |-> data,
                      response |-> ValidationFailed(CustomerErrors(data))]
                ELSE [pc |-> "insert", data |-> data, response |-> NoResponse]]
    /\ Unchanged
    /\ UNCHANGED <<req, resp, snapshot>>

\* add_customer, lines 157-169: build the Customer, add it, commit, answer 201
insert_customer(w) ==
    /\ workers[w].pc = "insert"
    /\ LET data == workers[w].data
           customer_data == Loaded(CustomerSchema_load_instance, data)
           raised == Subscript(customer_data, {"name", "email", "address"})
           Done(r) == workers' = [workers EXCEPT ![w] =
                         [pc |-> "done", data |-> data, response |-> r]]
       IN  IF raised # "ok"
           THEN Done(ServerError(raised)) /\ Unchanged
           ELSE \E id \in AutoIds(customer, CustomerIds) :
                   LET new_customer == [name |-> data.name, email |-> data.email,
                                        address |-> data.address]
                       c2 == Insert(customer, id, new_customer)
                   IN  IF IntegrityOK(c2, products, orders, order_products)
                       THEN /\ customer' = c2
                            /\ UNCHANGED <<products, orders, order_products>>
                            /\ Done(Success(201, "Customer created successfully",
                                            {customer_dump(id, new_customer)}))
                       ELSE Done(ServerError("IntegrityError")) /\ Unchanged
    /\ UNCHANGED <<req, resp, snapshot>>

\* Both requests carry the same email, which no stored customer has.
InitConc ==
    /\ customer \in Tables(CustomerIds, CustomerRows)
    /\ UniqueEmail(customer)
    /\ products \in Tables(ProductIds, ProductRows)
    /\ orders \in Tables(OrderIds, [order_date : StoredDates, customer_id : DOMAIN customer])
    /\ order_products = EmptyBag
    /\ req = NoRequest
    /\ resp = NoResponse
    /\ snapshot = Store
    /\ \E e \in Emails :
          /\ \A i \in DOMAIN customer : customer[i].email # e
          /\ workers \in [Workers ->
                {[pc |-> "load", data |-> d, response |-> NoResponse] :
                    d \in {x \in CustomerPayloads :
                             "name" \in DOMAIN x /\ "email" \in DOMAIN x /\ x.email = e}}]

NextConc ==
    \/ \E w \in Workers : load_customer(w)
    \/ \E w \in Workers : insert_customer(w)

SpecConc == InitConc /\ [][NextConc]_vars

\* ---------------------------------------------------------------- properties

EmailsOf(c) == {c[i].email : i \in DOMAIN c}

WithEmail(c, e) == {i \in DOMAIN c : c[i].email = e}

LinksOf(op, product_id) == {r \in BagToSet(op) : r[2] = product_id}

\* The messages OrderSchema.Meta attaches to its order_date attribute.
OrderDateRequiredMsg == "Order date is required."
OrderDateInvalidMsg == "Invalid date format. Please use MM.DD.YYYY."

\* C1: no (order_id, product_id) pair is ever present more than once; and
\* AddProductToOrder on an existing order and product answers 200 and links
\* them when they were not linked, and answers 400 "Product already in
\* order" when they were (as after a first successful call), leaving exactly
\* one entry for the pair either way.
C1_AddProductTwice ==
    /\ \A r \in BagToSet(order_products) : CopiesIn(r, order_products) = 1
    /\ (/\ req.op = "add_product_to_order"
        /\ req.id \in DOMAIN snapshot.orders
        /\ req.product_id \in DOMAIN snapshot.products)
       => LET pair == <<req.id, req.product_id>>
          IN  /\ CopiesIn(pair, order_products) = 1
              /\ IF CopiesIn(pair, snapshot.order_products) = 0
                 THEN resp.status = 200
                 ELSE /\ resp.status = 400
                      /\ resp.error = "Product already in order"
                      /\ order_products = snapshot.order_products

\* The second call: the pair was linked by an earlier call (the association
\* table starts empty) and this call is rejected.
C1_SecondCallRejected ==
    /\ req.op = "add_product_to_order"
    /\ CopiesIn(<<req.id, req.product_id>>, snapshot.order_products) = 1
    /\ resp.status = 400
    /\ resp.error = "Product already in order"

\* C2: a Create Customer with a valid payload succeeds (201) when no stored
\* customer has its email, and otherwise is refused with a 400-class
\* response that has a structured body; afterwards exactly one customer row
\* holds that email.
C2_DuplicateEmailRefused ==
    (req.op = "add_customer" /\ CustomerErrors(req.payload) = {})
    => /\ Cardinality(WithEmail(customer, req.payload.email)) = 1
       /\ IF req.payload.email \notin EmailsOf(snapshot.customer)
          THEN resp.status = 201
          ELSE /\ resp.status \in 400..499
               /\ (resp.error # "" \/ resp.errors # {})

\* C3: Create Order with a payload that passes validation and whose
\* customer_id names no customer answers 400 {"error": "Customer not found"}
\* and inserts no order; every order inserted names a customer that exists.
C3_OrderNeedsCustomer ==
    /\ (/\ req.op = "add_order"
        /\ OrderErrors(req.payload) = {}
        /\ req.payload.customer_id \notin DOMAIN snapshot.customer)
       => /\ resp.status = 400
          /\ resp.error = "Customer not found"
          /\ orders = snapshot.orders
    /\ req.op = "add_order"
       => \A o \in DOMAIN orders \ DOMAIN snapshot.orders :
             orders[o].customer_id \in DOMAIN snapshot.customer

\* C4: ReadOne, Update and Delete of a customer or a product, and ReadOne of
\* an order, addressed to an id no row has, answer 404 with a non-empty error.
C4_MissingIdIs404 ==
    /\ (/\ req.op \in {"get_customer", "update_customer", "delete_customer"}
        /\ req.id \notin DOMAIN snapshot.customer)
       => (resp.status = 404 /\ resp.error # "")
    /\ (/\ req.op \in {"get_product", "update_product", "delete_product"}
        /\ req.id \notin DOMAIN snapshot.products)
       => (resp.status = 404 /\ resp.error # "")
    /\ (req.op = "get_order" /\ req.id \notin DOMAIN snapshot.orders)
       => (resp.status = 404 /\ resp.error # "")

C4_UpdateOfMissingProduct ==
    /\ req.op = "update_product"
    /\ req.id \notin DOMAIN snapshot.products
    /\ ProductErrors(req.payload) # {}
    /\ resp.status = 404
    /\ resp.error = "Product not found"

\* C5: Create Customer with name and email present (address present or
\* omitted) and an email no customer has answers 201 with a generated id, and
\* ReadOne of that id returns the payload's name, email and address.
C5_CreateThenRead ==
    (/\ req.op = "add_customer"
     /\ "name" \in DOMAIN req.payload
     /\ "email" \in DOMAIN req.payload
     /\ req.payload.email \notin EmailsOf(snapshot.customer))
    => /\ resp.status = 201
       /\ \E d \in resp.data :
             /\ d.id \in DOMAIN customer \ DOMAIN snapshot.customer
             /\ LET read == customer_dump(d.id, customer[d.id])
                IN  /\ read.name = req.payload.name
                    /\ read.email = req.payload.email
                    /\ read.address = IF "address" \in DOMAIN req.payload
                                      THEN req.payload.address ELSE None

\* C6: Create Order answers 400 with "Invalid date format. Please use
\* MM.DD.YYYY." for an order_date that is not of the form MM.DD.YYYY, and 400
\* with "Order date is required." when order_date is absent; neither inserts
\* an order.
C6_OrderDateFormat ==
    req.op = "add_order"
    => /\ ("order_date" \in DOMAIN req.payload
             /\ strptime_m_d_Y(req.payload.order_date) = InvalidDate)
          => /\ resp.status = 400
             /\ <<"order_date", OrderDateInvalidMsg>> \in resp.errors
             /\ orders = snapshot.orders
       /\ "order_date" \notin DOMAIN req.payload
          => /\ resp.status = 400
             /\ <<"order_date", OrderDateRequiredMsg>> \in resp.errors
             /\ orders = snapshot.orders

\* C7: when both concurrent Create Customer requests with the same new email
\* have ended, exactly one was answered 201 and the other was not, and no two
\* customers share an email.
C7_OneConcurrentCreateWins ==
    /\ \A i, j \in DOMAIN customer : customer[i].email = customer[j].email => i = j
    /\ (\A w \in Workers : workers[w].pc = "done")
       => Cardinality({w \in Workers : workers[w].response.status = 201}) = 1

\* C8: AddProductToOrder answers 404 {"error": "Order or Product not found"}
\* when the order, the product, or both are missing, and links nothing.
C8_MissingOrderOrProduct ==
    (/\ req.op = "add_product_to_order"
     /\ ~(req.id \in DOMAIN snapshot.orders /\ req.product_id \in DOMAIN snapshot.products))
    => /\ resp.status = 404
       /\ resp.error = "Order or Product not found"
       /\ order_products = snapshot.order_products

C8_ProductMissingOrderPresent ==
    /\ req.op = "add_product_to_order"
    /\ req.id \in DOMAIN snapshot.orders
    /\ req.product_id \notin DOMAIN snapshot.products
    /\ resp.status = 404

\* C9: every order's customer_id names a customer that exists; Delete
\* Customer on a customer that owns an order does not complete: the customer
\* and the orders stay as they were.
C9_NoOrphanedOrder ==
    /\ \A o \in DOMAIN orders : orders[o].customer_id \in DOMAIN customer
    /\ (/\ req.op = "delete_customer"
        /\ \E o \in DOMAIN snapshot.orders : snapshot.orders[o].customer_id = req.id)
       => /\ resp.status # 200
          /\ customer = snapshot.customer
          /\ orders = snapshot.orders

C9_DeleteOfOwnerRefused ==
    /\ req.op = "delete_customer"
    /\ \E o \in DOMAIN snapshot.orders : snapshot.orders[o].customer_id = req.id
    /\ resp.exception = "IntegrityError"

\* C10: every association row names an order and a product that exist;
\* Delete Product on a linked product succeeds and removes the product and
\* all of its association rows, leaving the other rows; ListProductsInOrder
\* answers 200 with exactly the linked products, each one an existing product.
C10_NoDanglingLink ==
    /\ \A r \in BagToSet(order_products) :
          r[1] \in DOMAIN orders /\ r[2] \in DOMAIN products
    /\ (/\ req.op = "delete_product"
        /\ LinksOf(snapshot.order_products, req.id) # {})
       => /\ resp.status = 200
          /\ req.id \notin DOMAIN products
          /\ BagToSet(order_products) =
                BagToSet(snapshot.order_products) \ LinksOf(snapshot.order_products, req.id)
    /\ (req.op = "get_products_in_order" /\ req.id \in DOMAIN snapshot.orders)
       => /\ resp.status = 200
          /\ {d.id : d \in resp.data} =
                {r[2] : r \in {x \in BagToSet(order_products) : x[1] = req.id}}
          /\ \A d \in resp.data :
                d.id \in DOMAIN products /\ d = product_dump(d.id, products[d.id])

C10_LinkedProductDeleted ==
    /\ req.op = "delete_product"
    /\ LinksOf(snapshot.order_products, req.id) # {}
    /\ resp.status = 200

====
